---- MODULE Spec2Model ----
(***************************************************************************)
(* The evaluation harness of the AI travel agent: the interaction store    *)
(* (logs.jsonl), the test-case file (eval_data.jsonl), the three heuristic *)
(* scorers, the case evaluator, the batch runner and the results analyzer  *)
(* of src/eval_utils.py, with their callers in src/run_evaluation.py and   *)
(* src/travel_agent.py.                                                    *)
(*                                                                         *)
(* Python str values are TLA+ strings (TLC gives them Len, SubSeq, Head,   *)
(* Tail and \o).  Other Python values are tagged records, see PyStr below. *)
(* Scores are exact: a score x of the program is held as the integer       *)
(* x * Unit.  Every weight and threshold of the scorers is a multiple of   *)
(* 0.1, and the binary64 sums the program computes fall on the same side   *)
(* of every threshold as the exact sums (the largest deviation is one ulp, *)
(* 0.2 + 0.2 + 0.2 = 0.6000000000000001).                                  *)
(*                                                                         *)
(* A value that is used more than once is bound by a set constructor,      *)
(* The({e(x) : x \in {v}}), or by \E x \in {v}, so that it is evaluated    *)
(* once.                                                                   *)
(***************************************************************************)
EXTENDS Integers, Sequences, FiniteSets, TLC

VARIABLES
    log_file,      \* logs.jsonl: [exists, text]
    eval_data,     \* eval_data.jsonl: [exists, text]
    results_file,  \* evaluation_results.json: [exists, doc]
    pc,            \* position of the running operation
    test_cases,    \* run_evaluation's test_cases list
    results,       \* run_evaluation's results list
    ret,           \* what the last run_evaluation call returned
    calls,         \* the generation collaborator's calls, in order
    analysis,      \* what the last analyze_results call returned
    logged         \* the arguments of the log_interaction calls, in order

vars == <<log_file, eval_data, results_file, pc, test_cases, results, ret,
          calls, analysis, logged>>

----------------------------------------------------------------------------
(* Bounds of the model.                                                    *)

MaxLines == 2
MaxLogged == 2
MaxDays == 3

----------------------------------------------------------------------------
(* Constants of the program.                                               *)

SubstantialLength == 200
ExcerptLength == 500

----------------------------------------------------------------------------
(* Python str operations.                                                  *)

\* the element of a one-element set
The(S) == CHOOSE x \in S : TRUE

Min(a, b) == IF a <= b THEN a ELSE b

\* the least element of a set of positions, 0 when it is empty
FirstOf(S) ==
    The({IF at = {} THEN 0 ELSE CHOOSE i \in at : \A j \in at : i <= j : at \in {S}})

\* the greatest element of a set of positions, default when it is empty
LastOf(S, default) ==
    The({IF at = {} THEN default ELSE CHOOSE i \in at : \A j \in at : j <= i : at \in {S}})

\* s[i] (1-based), "" past the end
Ch(s, i) == IF i >= 1 /\ i <= Len(s) THEN SubSeq(s, i, i) ELSE ""

\* sub in s
Contains(sub, s) ==
    \E a \in {sub}, t \in {s} :
        \/ a = ""
        \/ \E i \in 1..(Len(t) - Len(a) + 1) : SubSeq(t, i, i + Len(a) - 1) = a

\* the first position >= from where sub starts in s, 0 when there is none
IndexOf(sub, s, from) ==
    The({FirstOf({i \in from..(Len(t) - Len(a) + 1) : SubSeq(t, i, i + Len(a) - 1) = a})
         : a \in {sub}, t \in {s}})

\* s[i:] (1-based i)
From(s, i) == IF i > Len(s) THEN "" ELSE SubSeq(s, i, Len(s))

UpperCase == "ABCDEFGHIJKLMNOPQRSTUVWXYZ"
LowerCase == "abcdefghijklmnopqrstuvwxyz"

LowerChar(c) ==
    The({IF k = 0 THEN c ELSE Ch(LowerCase, k)
         : k \in {IF c = "" THEN 0 ELSE IndexOf(c, UpperCase, 1)}})

RECURSIVE LowerRange(_, _, _)
\* s[lo..hi] in lower case, character by character (the two halves, to keep
\* the recursion shallow)
LowerRange(s, lo, hi) ==
    IF lo > hi THEN ""
    ELSE IF lo = hi THEN LowerChar(Ch(s, lo))
    ELSE The({LowerRange(s, lo, mid) \o LowerRange(s, mid + 1, hi)
              : mid \in {(lo + hi) \div 2}})

\* str.lower()
lower(s) == The({LowerRange(t, 1, Len(t)) : t \in {s}})

RECURSIVE CountFrom(_, _, _)
CountFrom(s, sub, i) ==
    The({IF found = 0 THEN 0 ELSE 1 + CountFrom(s, sub, found + Len(sub))
         : found \in {IndexOf(sub, s, i)}})

\* s.count(sub), sub non-empty: the non-overlapping occurrences, left to right
count(s, sub) == The({CountFrom(t, sub, 1) : t \in {s}})

Digits == "0123456789"
IsDigit(c) == c # "" /\ Contains(c, Digits)
DigitChar(d) == Ch(Digits, d + 1)
DigitValue(c) == IndexOf(c, Digits, 1) - 1

RECURSIVE StrNat(_)
StrNat(n) == IF n < 10 THEN DigitChar(n) ELSE StrNat(n \div 10) \o DigitChar(n % 10)

\* str(n) of an int
str(n) == The({IF m < 0 THEN "-" \o StrNat(0 - m) ELSE StrNat(m) : m \in {n}})

Whitespace == {" ", "\n", "\t", "\r"}

\* not line.strip()
IsBlank(line) == \E t \in {line} : \A i \in 1..Len(t) : Ch(t, i) \in Whitespace

\* the k-th smallest element of a set of positions
Nth(S, k) == CHOOSE e \in S : Cardinality({d \in S : d <= e}) = k

\* for line in f: the lines of a text file, each with its line break (the
\* last one has none when the text does not end with one)
Lines(text) ==
    The({The({[k \in 1..Cardinality(ends) |->
                  SubSeq(t, IF k = 1 THEN 1 ELSE Nth(ends, k - 1) + 1, Nth(ends, k))]
              : ends \in {{i \in 1..Len(t) : Ch(t, i) = "\n" \/ i = Len(t)}}})
         : t \in {text}})

----------------------------------------------------------------------------
(* Python values that pass through JSON: tagged by type, so that a value   *)
(* read back from a file can be told apart from one of another type.  A    *)
(* dict keeps its items in insertion order, as Python does.                *)

PyStr(s) == [t |-> "str", s |-> s]
PyInt(n) == [t |-> "int", n |-> n]
PyNone == [t |-> "None"]
PyDict(items) == [t |-> "dict", d |-> items]
Item(k, val) == [k |-> k, v |-> val]

\* key in d
HasKey(d, key) == \E x \in {d} : x.t = "dict" /\ \E i \in 1..Len(x.d) : x.d[i].k = key

\* d[key], for a key that is in d (a repeated key reads its last item)
Get(d, key) ==
    The({x.d[CHOOSE i \in 1..Len(x.d) :
                 /\ x.d[i].k = key
                 /\ \A j \in (i + 1)..Len(x.d) : x.d[j].k # key].v
         : x \in {d}})

----------------------------------------------------------------------------
(* json.dumps and json.loads, on the values above: objects, strings with   *)
(* their escapes, integers and null, with the default separators.          *)

EscapeChar(c) ==
    CASE c = "\"" -> "\\\""
      [] c = "\\" -> "\\\\"
      [] c = "\n" -> "\\n"
      [] OTHER -> c

RECURSIVE EscapeRange(_, _, _)
\* the characters of s[lo..hi] as a JSON string holds them (the two halves,
\* to keep the recursion shallow)
EscapeRange(s, lo, hi) ==
    IF lo > hi THEN ""
    ELSE IF lo = hi THEN EscapeChar(Ch(s, lo))
    ELSE The({EscapeRange(s, lo, mid) \o EscapeRange(s, mid + 1, hi)
              : mid \in {(lo + hi) \div 2}})

Escape(s) == The({EscapeRange(t, 1, Len(t)) : t \in {s}})

RECURSIVE DumpValue(_)
RECURSIVE DumpItems(_, _)
\* the members of a dict from its k-th item
DumpItems(items, k) ==
    IF k > Len(items) THEN ""
    ELSE "\"" \o Escape(items[k].k) \o "\": " \o DumpValue(items[k].v)
         \o (IF k < Len(items) THEN ", " \o DumpItems(items, k + 1) ELSE "")

DumpValue(v) ==
    CASE v.t = "str" -> "\"" \o Escape(v.s) \o "\""
      [] v.t = "int" -> str(v.n)
      [] v.t = "None" -> "null"
      [] v.t = "dict" -> "{" \o The({DumpItems(items, 1) : items \in {v.d}}) \o "}"

\* json.dumps(value)
dumps(value) == The({DumpValue(v) : v \in {value}})

\* a parse step: ok, the value read, the position after it
Parsed(val, pos) == [ok |-> TRUE, v |-> val, pos |-> pos]
ParseError == [ok |-> FALSE, v |-> PyNone, pos |-> 0]

RECURSIVE SkipWs(_, _)
SkipWs(s, i) == IF Ch(s, i) \in Whitespace THEN SkipWs(s, i + 1) ELSE i

RECURSIVE BackslashesBefore(_, _, _)
\* the backslashes that end right before position j of s, none before lo
BackslashesBefore(s, j, lo) ==
    IF j > lo /\ Ch(s, j - 1) = "\\" THEN 1 + BackslashesBefore(s, j - 1, lo) ELSE 0

\* position j of s, in a JSON string that starts at lo, opens an escape
OpensEscape(s, j, lo) == Ch(s, j) = "\\" /\ BackslashesBefore(s, j, lo) % 2 = 0

UnescapeChar(e) ==
    CASE e = "\"" -> "\""
      [] e = "\\" -> "\\"
      [] e = "n" -> "\n"

RECURSIVE Unescape(_, _, _)
\* the characters that positions lo..hi of s stand for, in a JSON string
\* that opens no escape at hi (the two halves, cut between two characters)
Unescape(s, lo, hi) ==
    IF lo > hi THEN ""
    ELSE IF lo = hi THEN Ch(s, lo)
    ELSE IF lo + 1 = hi /\ Ch(s, lo) = "\\" THEN UnescapeChar(Ch(s, hi))
    ELSE The({The({IF cut = hi
                   THEN Unescape(s, lo, mid - 1) \o Unescape(s, mid, hi)
                   ELSE Unescape(s, lo, cut) \o Unescape(s, cut + 1, hi)
                   : cut \in {IF OpensEscape(s, mid, lo) THEN mid + 1 ELSE mid}})
              : mid \in {(lo + hi) \div 2}})

\* the JSON string whose first character is at position i of s, up to its
\* closing quote
ScanString(s, i) ==
    The({IF close = 0 THEN ParseError
         ELSE IF \E j \in i..(close - 1) :
                    \/ Ch(s, j) = "\n"
                    \/ OpensEscape(s, j, i) /\ Ch(s, j + 1) \notin {"\"", "\\", "n"}
              THEN ParseError
         ELSE Parsed(PyStr(Unescape(s, i, close - 1)), close + 1)
         : close \in {FirstOf({j \in i..Len(s) :
                                   Ch(s, j) = "\"" /\ BackslashesBefore(s, j, i) % 2 = 0})}})

RECURSIVE ScanInt(_, _, _)
ScanInt(s, i, acc) ==
    IF IsDigit(Ch(s, i)) THEN ScanInt(s, i + 1, 10 * acc + DigitValue(Ch(s, i)))
    ELSE Parsed(PyInt(acc), i)

RECURSIVE ParseValue(_, _)
RECURSIVE ParseMembers(_, _, _)
\* the members of a JSON object from position i (a key), up to its closing brace
ParseMembers(s, i, acc) ==
    IF Ch(s, i) # "\"" THEN ParseError
    ELSE
    The({IF ~key.ok THEN ParseError
         ELSE
         The({IF Ch(s, colon) # ":" THEN ParseError
              ELSE
              The({IF ~val.ok THEN ParseError
                   ELSE
                   The({CASE Ch(s, next) = "," ->
                               The({ParseMembers(s, more, items)
                                    : more \in {SkipWs(s, next + 1)}})
                          [] Ch(s, next) = "}" -> Parsed(PyDict(items), next + 1)
                          [] OTHER -> ParseError
                        : next \in {SkipWs(s, val.pos)},
                          items \in {Append(acc, Item(key.v.s, val.v))}})
                   : val \in {The({ParseValue(s, at) : at \in {SkipWs(s, colon + 1)}})}})
              : colon \in {SkipWs(s, key.pos)}})
         : key \in {ScanString(s, i + 1)}})

ParseValue(s, i) ==
    LET c == Ch(s, i) IN
    CASE c = "\"" -> ScanString(s, i + 1)
      [] c = "{" ->
            The({IF Ch(s, first) = "}" THEN Parsed(PyDict(<<>>), first + 1)
                 ELSE ParseMembers(s, first, <<>>)
                 : first \in {SkipWs(s, i + 1)}})
      [] c = "n" ->
            IF i + 3 <= Len(s) /\ SubSeq(s, i, i + 3) = "null"
            THEN Parsed(PyNone, i + 4) ELSE ParseError
      [] IsDigit(c) -> ScanInt(s, i, 0)
      [] c = "-" /\ IsDigit(Ch(s, i + 1)) ->
            The({Parsed(PyInt(0 - m.v.n), m.pos) : m \in {ScanInt(s, i + 1, 0)}})
      [] OTHER -> ParseError

\* json.loads(text): ok is FALSE where json.loads raises JSONDecodeError
loads(text) ==
    The({The({IF r.ok /\ SkipWs(s, r.pos) > Len(s) THEN r ELSE ParseError
              : r \in {The({ParseValue(s, at) : at \in {SkipWs(s, 1)}})}})
         : s \in {text}})

----------------------------------------------------------------------------
(* Scores.  Unit is 1.0 and Tenths(k) is k/10; a mean of three sub-scores  *)
(* is a whole number of 1/30ths.                                           *)

Unit == 3 * 10
Tenths(k) == k * (Unit \div 10)

\* any(keyword in text for keyword in keywords)
AnyKeyword(keywords, text) ==
    \E t \in {text} : \E k \in 1..Len(keywords) : Contains(keywords[k], t)

\* the conditions of _evaluate_relevance, in the order of the code
RelevanceChecks(destination, num_days, response) ==
    The({<< Contains(d, r),
            Contains(n, response) \/ Contains(n \o "-day", r),
            Contains("day", r) /\ (Contains("1", response) \/ Contains("first", r)),
            AnyKeyword(<<"visit", "explore", "see", "tour", "accommodation", "hotel",
                         "restaurant">>, r) >>
         : d \in {lower(destination)}, n \in {str(num_days)}, r \in {lower(response)}})

_evaluate_relevance(destination, num_days, response) ==
    The({Min(  (IF fired[1] THEN Tenths(3) ELSE 0)
             + (IF fired[2] THEN Tenths(3) ELSE 0)
             + (IF fired[3] THEN Tenths(2) ELSE 0)
             + (IF fired[4] THEN Tenths(2) ELSE 0), Unit)
         : fired \in {RelevanceChecks(destination, num_days, response)}})

\* ContainsChecks without the lower-casing of the response
ContainsChecksCaseSensitive(destination, response) ==
    << Contains(destination, response),
       Contains("day 1", response) \/ Contains("day one", response),
       Contains("itinerary", response) >>

\* the conditions of _evaluate_contains, in the order of the code
ContainsChecks(destination, response) ==
    The({<< Contains(d, r),
            Contains("day 1", r) \/ Contains("day one", r),
            Contains("itinerary", r) >>
         : d \in {lower(destination)}, r \in {lower(response)}})

\* _evaluate_contains with 0.3 as the weight of the destination check
ContainsScoreLowWeight(destination, response) ==
    The({Min(  (IF fired[1] THEN Tenths(3) ELSE 0)
             + (IF fired[2] THEN Tenths(3) ELSE 0)
             + (IF fired[3] THEN Tenths(3) ELSE 0), Unit)
         : fired \in {ContainsChecks(destination, response)}})

\* _evaluate_contains with 0.5 as the weight of the destination check
ContainsScoreHeavyDestination(destination, response) ==
    The({Min(  (IF fired[1] THEN Tenths(5) ELSE 0)
             + (IF fired[2] THEN Tenths(3) ELSE 0)
             + (IF fired[3] THEN Tenths(3) ELSE 0), Unit)
         : fired \in {ContainsChecks(destination, response)}})

_evaluate_contains(destination, response) ==
    The({Min(  (IF fired[1] THEN Tenths(4) ELSE 0)
             + (IF fired[2] THEN Tenths(3) ELSE 0)
             + (IF fired[3] THEN Tenths(3) ELSE 0), Unit)
         : fired \in {ContainsChecks(destination, response)}})

\* the conditions of _evaluate_quality, in the order of the code
QualityChecks(response, num_days) ==
    The({<< Contains("day", r),
            AnyKeyword(<<"visit", "explore", "see", "tour", "museum", "park",
                         "restaurant">>, r),
            AnyKeyword(<<"hotel", "accommodation", "stay", "lodging">>, r),
            Len(response) > SubstantialLength,
            count(r, "day") >= num_days >>
         : r \in {lower(response)}})

_evaluate_quality(response, num_days) ==
    The({Min(  (IF fired[1] THEN Tenths(2) ELSE 0)
             + (IF fired[2] THEN Tenths(2) ELSE 0)
             + (IF fired[3] THEN Tenths(2) ELSE 0)
             + (IF fired[4] THEN Tenths(2) ELSE 0)
             + (IF fired[5] THEN Tenths(2) ELSE 0), Unit)
         : fired \in {QualityChecks(response, num_days)}})

----------------------------------------------------------------------------
(* The case evaluator.                                                     *)

\* how a call ends: it raises, or it returns a value
Raise(exc, message) == [raised |-> TRUE, exc |-> exc, message |-> message]
Return(value) == [raised |-> FALSE, value |-> value]

\* test_case["input"]["destination"] and test_case["input"]["num_days"] can
\* be read (lines 103-104 raise KeyError otherwise)
HasInputKeys(test_case) ==
    /\ HasKey(test_case, "input")
    /\ HasKey(Get(test_case, "input"), "destination")
    /\ HasKey(Get(test_case, "input"), "num_days")

\* a failed generation that falls through to an evaluation of nothing:
\* all([]) is True
EvaluatedWithoutResponse(case_index, message) ==
    [test |-> [description |-> "Test Case " \o str(case_index + 1)],
     passed |-> TRUE,
     score |-> 0,
     details |-> [evaluations |-> <<>>, response |-> ""]]

\* lines 110-115: the result of a case whose generation raised
GenerationError(case_index, message) ==
    [test |-> [description |-> "Test Case " \o str(case_index + 1)],
     passed |-> FALSE,
     score |-> 0,
     details |-> [error |-> message]]

\* lines 118-142: the three evaluations of a response
Evaluations(destination, num_days, response) ==
    The({<< [type |-> "answer-relevance",
             passed |-> relevance_score >= Tenths(7),
             score |-> relevance_score],
            [type |-> "contains",
             passed |-> contains_score >= Tenths(8),
             score |-> contains_score],
            [type |-> "llm-rubric",
             passed |-> quality_score >= Tenths(7),
             score |-> quality_score] >>
         : relevance_score \in {_evaluate_relevance(destination, num_days, response)},
           contains_score \in {_evaluate_contains(destination, response)},
           quality_score \in {_evaluate_quality(response, num_days)}})

\* any(e["passed"] for e in evaluations)
AnyPassed(evaluations) == \E e \in 1..Len(evaluations) : evaluations[e].passed

\* all(e["passed"] for e in evaluations)
OverallPassed(evaluations) == \A e \in 1..Len(evaluations) : evaluations[e].passed

Sum3(evaluations) == evaluations[1].score + evaluations[2].score + evaluations[3].score

\* sum(e["score"] for e in evaluations) / len(evaluations)
OverallScore(evaluations) == Sum3(evaluations) \div Len(evaluations)

\* response[:500] + "..." if len(response) > 500 else response
Excerpt(response) ==
    The({IF Len(r) > ExcerptLength THEN SubSeq(r, 1, ExcerptLength) \o "..." ELSE r
         : r \in {response}})

\* _evaluate_single_case(test_case, case_index), where generated is how the
\* call of _generate_response(destination, num_days) ended
_evaluate_single_case(test_case, case_index, generated) ==
    IF ~HasInputKeys(test_case) THEN Raise("KeyError", "")
    ELSE IF generated.raised
    THEN Return(GenerationError(case_index, generated.message))
    ELSE
    The({The({Return([test |-> [description |->
                          "Test Case " \o str(case_index + 1) \o ": " \o destination
                          \o " for " \o str(num_days) \o " days"],
                      passed |-> OverallPassed(evaluations),
                      score |-> OverallScore(evaluations),
                      details |-> [evaluations |-> evaluations,
                                   response |-> Excerpt(response)]])
              : evaluations \in {Evaluations(destination, num_days, response)}})
         : destination \in {Get(Get(test_case, "input"), "destination").s},
           num_days \in {Get(Get(test_case, "input"), "num_days").n},
           response \in {generated.value}})

----------------------------------------------------------------------------
(* Files, the interaction store and the conversion to test data.           *)

NoFile == [exists |-> FALSE, text |-> ""]
File(text) == [exists |-> TRUE, text |-> text]

\* ensure_log_file_exists: the store after it
ensure_log_file_exists(log) == IF ~log.exists THEN File("") ELSE log

\* metadata or {}
OrEmptyDict(metadata) ==
    IF metadata.t = "None" \/ (metadata.t = "dict" /\ metadata.d = <<>>)
    THEN PyDict(<<>>) ELSE metadata

\* lines 41-47: the entry log_interaction writes; timestamp is what
\* datetime.datetime.now().isoformat() gave
LogEntry(timestamp, user_input, planner_output, researcher_output, metadata) ==
    PyDict(<< Item("timestamp", PyStr(timestamp)),
              Item("user_input", user_input),
              Item("planner_output", PyStr(planner_output)),
              Item("researcher_output", researcher_output),
              Item("metadata", OrEmptyDict(metadata)) >>)

\* log_interaction with the store opened in mode 'w'
LogInteractionTruncating(log, timestamp, user_input, planner_output, researcher_output, metadata) ==
    File(dumps(LogEntry(timestamp, user_input, planner_output, researcher_output, metadata))
         \o "\n")

\* log_interaction: the store after it
log_interaction(log, timestamp, user_input, planner_output, researcher_output, metadata) ==
    File(log.text
         \o dumps(LogEntry(timestamp, user_input, planner_output, researcher_output, metadata))
         \o "\n")

\* TestCaseOf with the researcher's output as the expected answer
TestCaseOfResearcher(log_entry) ==
    PyDict(<< Item("input",
                   PyDict(<< Item("destination",
                                  Get(Get(log_entry, "user_input"), "destination")),
                             Item("num_days",
                                  Get(Get(log_entry, "user_input"), "num_days")) >>)),
              Item("expected", Get(log_entry, "researcher_output")) >>)

\* lines 289-295: the test case of a log entry
TestCaseOf(log_entry) ==
    PyDict(<< Item("input",
                   PyDict(<< Item("destination",
                                  Get(Get(log_entry, "user_input"), "destination")),
                             Item("num_days",
                                  Get(Get(log_entry, "user_input"), "num_days")) >>)),
              Item("expected", Get(log_entry, "planner_output")) >>)

RECURSIVE ConvertLines(_, _)
\* the reading loop of convert_logs_to_test_data over the lines left
ConvertLines(lines, test_data) ==
    IF lines = <<>> THEN Return(test_data)
    ELSE IF IsBlank(Head(lines)) THEN ConvertLines(Tail(lines), test_data)
    ELSE The({IF ~log_entry.ok THEN Raise("JSONDecodeError", "")
              ELSE IF ~( /\ HasKey(log_entry.v, "user_input")
                         /\ HasKey(Get(log_entry.v, "user_input"), "destination")
                         /\ HasKey(Get(log_entry.v, "user_input"), "num_days")
                         /\ HasKey(log_entry.v, "planner_output") )
                   THEN Raise("KeyError", "")
              ELSE The({ConvertLines(Tail(lines), Append(test_data, test_case))
                        : test_case \in {TestCaseOf(log_entry.v)}})
              : log_entry \in {loads(Head(lines))}})

RECURSIVE WriteLines(_, _)
\* one json.dumps(record) + "\n" per record, from the k-th
WriteLines(records, k) ==
    IF k > Len(records) THEN ""
    ELSE dumps(records[k]) \o "\n" \o WriteLines(records, k + 1)

\* convert_logs_to_test_data: how it ends, and the test-data file after it
\* (written only when the whole store was read)
convert_logs_to_test_data(log, output) ==
    IF ~log.exists THEN [end |-> Raise("FileNotFoundError", ""), output |-> output]
    ELSE The({IF test_data.raised THEN [end |-> test_data, output |-> output]
              ELSE [end |-> Return("eval_data.jsonl"),
                    output |-> File(The({WriteLines(records, 1)
                                         : records \in {test_data.value}}))]
              : test_data \in {The({ConvertLines(lines, <<>>)
                                    : lines \in {Lines(log.text)}})}})

RECURSIVE LoadLines(_, _)
\* the reading loop of run_evaluation over the lines left
LoadLines(lines, loaded) ==
    IF lines = <<>> THEN Return(loaded)
    ELSE IF IsBlank(Head(lines)) THEN LoadLines(Tail(lines), loaded)
    ELSE The({IF ~test_case.ok THEN Raise("JSONDecodeError", "")
              ELSE LoadLines(Tail(lines), Append(loaded, test_case.v))
              : test_case \in {loads(Head(lines))}})

\* lines 67-71: the test cases of a test-data file
LoadFile(file) ==
    IF ~file.exists THEN Raise("FileNotFoundError", "")
    ELSE The({LoadLines(lines, <<>>) : lines \in {Lines(file.text)}})

----------------------------------------------------------------------------
(* generate_itinerary: the planner's content, cleaned, and the store.      *)

RECURSIVE RemoveThink(_)
\* re.sub(r'<think>.*?</think>', '', s, flags=re.DOTALL)
RemoveThink(s) ==
    The({The({The({IF open = 0 \/ close = 0 THEN t
                   ELSE SubSeq(t, 1, open - 1)
                        \o RemoveThink(From(t, close + Len("</think>")))
                   : close \in {IF open = 0 THEN 0
                                ELSE IndexOf("</think>", t, open + Len("<think>"))}})
              : open \in {IndexOf("<think>", t, 1)}})
         : t \in {s}})

RECURSIVE CollapseFrom(_, _)
\* re.sub(r'\n\s*\n', '\n\n', s) from position i: a line break, the
\* whitespace after it up to its last line break
CollapseFrom(s, i) ==
    The({IF first = 0 THEN From(s, i)
         ELSE The({IF last = 0 THEN SubSeq(s, i, first) \o CollapseFrom(s, first + 1)
                   ELSE SubSeq(s, i, first - 1) \o "\n\n" \o CollapseFrom(s, last + 1)
                   : last \in {LastOf({k \in (first + 1)..(SkipWs(s, first + 1) - 1) :
                                           Ch(s, k) = "\n"}, 0)}})
         : first \in {IndexOf("\n", s, i)}})

RECURSIVE SkipWsBack(_, _)
SkipWsBack(s, i) == IF Ch(s, i) \in Whitespace THEN SkipWsBack(s, i - 1) ELSE i

\* str.rstrip()
rstrip(s) == The({SubSeq(t, 1, SkipWsBack(t, Len(t))) : t \in {s}})

\* str.strip()
strip(s) == The({rstrip(From(t, SkipWs(t, 1))) : t \in {s}})

\* lines 79-83 of generate_itinerary
CleanContent(content) ==
    strip(The({CollapseFrom(t, 1) : t \in {RemoveThink(content)}}))

PlannerMetadata ==
    PyDict(<< Item("agent_name", PyStr("planner")),
              Item("model", PyStr("deepseek-r1:1.5b-qwen-distill-fp16")),
              Item("processing_time", PyStr("N/A")) >>)

\* a log_interaction call's user_input and planner_output
LoggedCall(user_input, planner_output) ==
    [user_input |-> user_input, planner_output |-> planner_output]

\* generate_itinerary(destination, num_days, enable_logging): how it ends,
\* the store after it and the log_interaction calls it made; run is how
\* planner.run ended
generate_itinerary(log, timestamp, destination, num_days, enable_logging, run) ==
    IF run.raised THEN [end |-> run, log |-> log, logged |-> <<>>]
    ELSE IF ~enable_logging
    THEN [end |-> Return(<<CleanContent(run.value), PyNone>>), log |-> log, logged |-> <<>>]
    ELSE The({[end |-> Return(<<cleaned_content, PyNone>>),
               log |-> log_interaction(ensure_log_file_exists(log), timestamp, user_input,
                                       cleaned_content, PyNone, PlannerMetadata),
               logged |-> <<LoggedCall(user_input, cleaned_content)>>]
              : cleaned_content \in {CleanContent(run.value)},
                user_input \in {PyDict(<< Item("destination", PyStr(destination)),
                                          Item("num_days", PyInt(num_days)) >>)}})

\* _generate_response with logging left enabled
GenerateResponseLogging(destination, num_days) ==
    [destination |-> destination, num_days |-> num_days, enable_logging |-> TRUE]

\* the arguments _generate_response passes to generate_itinerary
_generate_response(destination, num_days) ==
    [destination |-> destination, num_days |-> num_days, enable_logging |-> FALSE]

----------------------------------------------------------------------------
(* The results analyzer.                                                   *)

\* d.get(field, default) on a record
GetOr(d, field, default) == IF field \in DOMAIN d THEN d[field] ELSE default

RECURSIVE AnalyzeLoopNewestFirst(_, _, _)
\* the loop with each failed case put before the ones already kept
AnalyzeLoopNewestFirst(rs, k, a) ==
    IF k > Len(rs) THEN a
    ELSE The({AnalyzeLoopNewestFirst(rs, k + 1, updated)
              : updated \in
                  {IF GetOr(rs[k], "passed", FALSE)
                   THEN [a EXCEPT !.summary.passed_tests = @ + 1]
                   ELSE [a EXCEPT !.summary.failed_tests = @ + 1,
                                  !.failed_cases =
                                      << [test |-> GetOr(GetOr(rs[k], "test", [none |-> 0]),
                                                         "description", "Unknown"),
                                          score |-> GetOr(rs[k], "score", 0),
                                          details |-> GetOr(rs[k], "details",
                                                            [none |-> 0])] >> \o @]}})

RECURSIVE AnalyzeLoop(_, _, _)
\* the loop of analyze_results over the results from the k-th
AnalyzeLoop(rs, k, a) ==
    IF k > Len(rs) THEN a
    ELSE The({AnalyzeLoop(rs, k + 1, updated)
              : updated \in
                  {IF GetOr(rs[k], "passed", FALSE)
                   THEN [a EXCEPT !.summary.passed_tests = @ + 1]
                   ELSE [a EXCEPT !.summary.failed_tests = @ + 1,
                                  !.failed_cases =
                                      Append(@, [test |-> GetOr(GetOr(rs[k], "test", [none |-> 0]),
                                                                "description", "Unknown"),
                                                 score |-> GetOr(rs[k], "score", 0),
                                                 details |-> GetOr(rs[k], "details",
                                                                   [none |-> 0])])]}})

\* lines 341-348: the insights of the counts
Insights(summary) ==
    (IF summary.failed_tests > 0
     THEN << "Found " \o str(summary.failed_tests) \o " failed test cases that need attention" >>
     ELSE <<>>)
    \o (IF summary.passed_tests = summary.total_tests
        THEN << "All tests passed - agent is performing well" >>
        ELSE <<>>)

\* analyze_results(results)
analyze_results(doc) ==
    The({The({[summary |-> counted.summary,
               failed_cases |-> counted.failed_cases,
               insights |-> Insights(counted.summary),
               recommendations |->
                   IF counted.failed_cases # <<>>
                   THEN << "Review and improve agent prompts for failed test cases" >>
                   ELSE <<>>]
              : counted \in
                  {AnalyzeLoop(rs, 1,
                       [summary |-> [total_tests |-> Len(rs),
                                     passed_tests |-> 0,
                                     failed_tests |-> 0,
                                     average_scores |-> <<>>],
                        failed_cases |-> <<>>])}})
         : rs \in {GetOr(doc, "results", <<>>)}})

----------------------------------------------------------------------------
(* Inputs.                                                                 *)

Destinations == {"Paris", "Tokyo"}

InputOf(destination, num_days) ==
    PyDict(<< Item("destination", PyStr(destination)), Item("num_days", PyInt(num_days)) >>)

\* a line of a test-case file as convert_logs_to_test_data writes it
LoggedCaseLine(destination, num_days) ==
    dumps(PyDict(<< Item("input", InputOf(destination, num_days)),
                    Item("expected", PyStr("Day 1: arrive.\nDay 2: museum.")) >>)) \o "\n"

\* a line of a test-case file as generate_sample_test_data writes it
SampleCaseLine(destination, num_days, description) ==
    dumps(PyDict(<< Item("input", InputOf(destination, num_days)),
                    Item("description", PyStr(description)) >>)) \o "\n"

\* the lines a test-case file is made of: two cases, a case with no
\* destination, a case with no num_days, a blank line
TestLines ==
    { LoggedCaseLine("Paris", 2),
      SampleCaseLine("Tokyo", 3, "Short trip to Tokyo"),
      dumps(PyDict(<< Item("input", PyDict(<< Item("num_days", PyInt(2)) >>)) >>)) \o "\n",
      dumps(PyDict(<< Item("input", PyDict(<< Item("destination", PyStr("Paris")) >>)) >>)) \o "\n",
      "  \n" }

RECURSIVE TextsOf(_, _)
\* the texts of at most n lines of a set
TextsOf(lines, n) ==
    IF n = 0 THEN {""}
    ELSE TextsOf(lines, n - 1) \cup {text \o line : text \in TextsOf(lines, n - 1), line \in lines}

ScenarioResponse ==
    "Day 1: Visit the Eiffel Tower. Day 2: Explore the Louvre. Stay at a hotel near the Seine."

PassingResponse ==
    "Paris. Your 3-day itinerary: Day 1: Visit the Louvre. Stay at a hotel. Day 2: the museum."

\* what planner.run does in a batch run: it fails, or it answers
BatchRuns ==
    { Raise("ConnectionError", "connection refused"),
      Return("<think>Paris is in France.</think>\n" \o ScenarioResponse \o "\n"),
      Return(PassingResponse) }

Sentence == "Enjoy local food, walk along the river, and watch the sunset from the old bridge. "

\* pieces of an answer: each makes some checks of the scorers fire, the last
\* one none but the length check
Fragments ==
    << "Paris. ",
       "Your 3-day itinerary: ",
       "Day 1: Visit the Louvre. ",
       "On the first day, relax. ",
       "Stay at a hotel. ",
       "Day 2: the museum. ",
       Sentence \o Sentence \o Sentence >>

RECURSIVE JoinFrom(_, _)
\* the fragments of a selection, in order, from the k-th
JoinFrom(selection, k) ==
    IF k > Len(Fragments) THEN ""
    ELSE (IF k \in selection THEN Fragments[k] ELSE "") \o JoinFrom(selection, k + 1)

\* what planner.run does when the scorers are exercised
ScoreRuns ==
    BatchRuns \cup {Return(JoinFrom(selection, 1)) : selection \in SUBSET (1..Len(Fragments))}

\* the arguments of the direct log_interaction calls: quotes, backslashes and
\* line breaks in the output, an extra key in the input, absent metadata, an
\* output that is JSON text, a blank output
LoggedArgs ==
    { [user_input |-> InputOf("Paris", 2),
       planner_output |-> "Day 1: \"Louvre\".\nDay 2: C:\\maps \\n end\\",
       researcher_output |-> PyNone,
       metadata |-> PyNone],
      [user_input |-> PyDict(<< Item("destination", PyStr("Tokyo")),
                                Item("num_days", PyInt(3)),
                                Item("budget", PyStr("low")) >>),
       planner_output |-> "",
       researcher_output |-> PyStr("notes"),
       metadata |-> PyDict(<< Item("agent_name", PyStr("planner")) >>)],
      [user_input |-> InputOf("Paris", 1),
       planner_output |-> "{\"plan\": \"Day 1\"}",
       researcher_output |-> PyNone,
       metadata |-> PyDict(<<>>)],
      [user_input |-> PyDict(<< Item("num_days", PyInt(0)),
                                Item("destination", PyStr("Saint \"Malo\"")) >>),
       planner_output |-> " \n",
       researcher_output |-> PyNone,
       metadata |-> PyNone] }

\* what planner.run does behind the itinerary button
ButtonRuns ==
    { Raise("ConnectionError", "connection refused"),
      Return("<think>plan</think>\n\n \nDay 1: arrive.\n\n\nDay 2: museum.\n") }

----------------------------------------------------------------------------
(* The batch runner, one step per action.  pc is "idle" when an evaluator  *)
(* is constructed and no call runs, "loop" between two iterations of       *)
(* run_evaluation's loop, "generating" while the generation collaborator   *)
(* runs, "done" when the call has ended, "saved" when its batch is         *)
(* analyzed and saved, "exit" when the analysis of the results artifact    *)
(* has ended the process.                                                  *)

\* datetime.datetime.now().isoformat() at the k-th reading of the clock
Now(k) == "2025-01-01T09:00:0" \o str(k) \o ".000001"

NotRun == [kind |-> "none"]
ReturnedNone == [kind |-> "None"]
Returned(batch) == [kind |-> "batch", value |-> batch]
Raised(exc) == [kind |-> "raised", exc |-> exc]
Pending == [pending |-> TRUE]
NotAnalyzed == [done |-> FALSE]

\* the number of results r with r.get("passed", False)
PassedCount(rs) == Cardinality({i \in 1..Len(rs) : GetOr(rs[i], "passed", FALSE)})

\* the number of results that carry an error
FailedCountErrors(rs) ==
    Cardinality({i \in 1..Len(rs) : "error" \in DOMAIN GetOr(rs[i], "details", [none |-> 0])})

\* the number of results r with not r.get("passed", False)
FailedCount(rs) == Cardinality({i \in 1..Len(rs) : ~GetOr(rs[i], "passed", FALSE)})

\* lines 83-90: what run_evaluation returns after its loop
BatchResult(rs) ==
    [results |-> rs,
     summary |-> [total_tests |-> Len(rs),
                  passed_tests |-> PassedCount(rs),
                  failed_tests |-> FailedCount(rs)]]

\* not test_cases
NoTestCases(loaded) == loaded = <<>>

\* lines 62-75 of run_evaluation(test_data_file): the conversion of the store
\* when no file is given, the reading of the test cases, the empty-input return
RunStart(test_data_file) ==
    /\ pc \in {"idle", "done"}
    /\ \E converted \in
           {IF test_data_file = ""
            THEN convert_logs_to_test_data(log_file, eval_data)
            ELSE [end |-> Return(test_data_file), output |-> eval_data]} :
       \E loaded \in
           {IF converted.end.raised THEN converted.end ELSE LoadFile(converted.output)} :
          /\ eval_data' = converted.output
          /\ IF loaded.raised
             THEN /\ test_cases' = <<>>
                  /\ ret' = Raised(loaded.exc)
                  /\ pc' = "done"
             ELSE IF NoTestCases(loaded.value)
             THEN /\ test_cases' = <<>>
                  /\ ret' = ReturnedNone
                  /\ pc' = "done"
             ELSE /\ test_cases' = loaded.value
                  /\ ret' = NotRun
                  /\ pc' = "loop"
    /\ results' = <<>>
    /\ calls' = <<>>
    /\ UNCHANGED <<log_file, results_file, analysis, logged>>

\* a loop that takes the next case while the generation of the one before
\* it still runs
StartCaseAhead ==
    /\ pc \in {"loop", "generating"}
    /\ Len(calls) < Len(test_cases)
    /\ \E test_case \in {test_cases[Len(calls) + 1]} :
       IF ~HasInputKeys(test_case)
       THEN /\ ret' = Raised("KeyError")
            /\ pc' = "done"
            /\ UNCHANGED calls
       ELSE /\ calls' = Append(calls,
                    [args |-> _generate_response(
                                  Get(Get(test_case, "input"), "destination").s,
                                  Get(Get(test_case, "input"), "num_days").n),
                     end |-> Pending])
            /\ pc' = "generating"
            /\ UNCHANGED ret
    /\ UNCHANGED <<log_file, eval_data, results_file, test_cases, results, analysis, logged>>

\* lines 79-80 and 103-108: the next case is taken; reading its input raises
\* KeyError out of run_evaluation, or the generation collaborator is called
StartCase ==
    /\ pc = "loop"
    /\ Len(results) < Len(test_cases)
    /\ \E test_case \in {test_cases[Len(results) + 1]} :
       IF ~HasInputKeys(test_case)
       THEN /\ ret' = Raised("KeyError")
            /\ pc' = "done"
            /\ UNCHANGED calls
       ELSE /\ calls' = Append(calls,
                    [args |-> _generate_response(
                                  Get(Get(test_case, "input"), "destination").s,
                                  Get(Get(test_case, "input"), "num_days").n),
                     end |-> Pending])
            /\ pc' = "generating"
            /\ UNCHANGED ret
    /\ UNCHANGED <<log_file, eval_data, results_file, test_cases, results, analysis, logged>>

\* lines 108-156 and 81: the collaborator ends, with one of runs as the
\* planner's outcome, and the case's result is appended
FinishCase(runs) ==
    /\ pc = "generating"
    /\ \E run \in runs, case_index \in {Len(results)}, call \in {calls[Len(calls)].args} :
       \E made \in {generate_itinerary(log_file, Now(Len(logged) + 1), call.destination,
                                       call.num_days, call.enable_logging, run)} :
       \E generated \in {IF made.end.raised THEN made.end ELSE Return(made.end.value[1])} :
       \E result \in {_evaluate_single_case(test_cases[case_index + 1], case_index, generated)} :
          /\ log_file' = made.log
          /\ logged' = logged \o made.logged
          /\ calls' = [calls EXCEPT ![Len(calls)].end = generated]
          /\ results' = Append(results, result.value)
          /\ pc' = "loop"
    /\ UNCHANGED <<eval_data, results_file, test_cases, ret, analysis>>

\* lines 83-90: the loop is over
RunReturn ==
    /\ pc = "loop"
    /\ Len(results) = Len(test_cases)
    /\ ret' = Returned(BatchResult(results))
    /\ pc' = "done"
    /\ UNCHANGED <<log_file, eval_data, results_file, test_cases, results, calls, analysis,
                   logged>>

\* run_comprehensive_evaluation, lines 86-97: a returned batch is analyzed
\* and saved as the results artifact
AnalyzeRun ==
    /\ pc = "done"
    /\ ret.kind = "batch"
    /\ analysis' = [done |-> TRUE, of |-> ret.value, value |-> analyze_results(ret.value)]
    /\ results_file' = [exists |-> TRUE, doc |-> ret.value]
    /\ pc' = "saved"
    /\ UNCHANGED <<log_file, eval_data, test_cases, results, ret, calls, logged>>

\* analyze_existing_results, lines 129-138: the results artifact is analyzed
AnalyzeExisting ==
    /\ pc \in {"idle", "saved"}
    /\ results_file.exists
    /\ analysis' = [done |-> TRUE, of |-> results_file.doc,
                    value |-> analyze_results(results_file.doc)]
    /\ pc' = "exit"
    /\ UNCHANGED <<log_file, eval_data, results_file, test_cases, results, ret, calls,
                   logged>>

----------------------------------------------------------------------------
(* The interaction store, one call per action.  pc is "start" before any   *)
(* evaluator is constructed, "converted" when the store has been converted *)
(* to test data, "failed" when the conversion raised.                      *)

\* TravelAgentEvaluator(): lines 17-19
Construct ==
    /\ pc \in {"start", "idle"}
    /\ log_file' = ensure_log_file_exists(log_file)
    /\ pc' = "idle"
    /\ UNCHANGED <<eval_data, results_file, test_cases, results, ret, calls, analysis,
                   logged>>

\* evaluator.log_interaction(user_input, planner_output, researcher_output,
\* metadata), with one of args as its arguments
LogInteraction(args) ==
    /\ pc = "idle"
    /\ Len(logged) < MaxLogged
    /\ \E a \in args :
          /\ log_file' = log_interaction(log_file, Now(Len(logged) + 1), a.user_input,
                                         a.planner_output, a.researcher_output, a.metadata)
          /\ logged' = Append(logged, LoggedCall(a.user_input, a.planner_output))
    /\ UNCHANGED <<eval_data, results_file, pc, test_cases, results, ret, calls, analysis>>

\* travel_agent.py, lines 127-129: the itinerary button, with one of runs as
\* the planner's outcome
GenerateItinerary(runs) ==
    /\ pc \in {"start", "idle"}
    /\ Len(logged) < MaxLogged
    /\ \E destination \in Destinations, run \in runs :
       \E made \in {generate_itinerary(log_file, Now(Len(logged) + 1), destination,
                                       MaxDays, TRUE, run)} :
          /\ log_file' = made.log
          /\ logged' = logged \o made.logged
    /\ UNCHANGED <<eval_data, results_file, pc, test_cases, results, ret, calls, analysis>>

\* evaluator.convert_logs_to_test_data()
ConvertLogs ==
    /\ pc = "idle"
    /\ \E converted \in {convert_logs_to_test_data(log_file, eval_data)} :
          /\ eval_data' = converted.output
          /\ pc' = IF converted.end.raised THEN "failed" ELSE "converted"
    /\ UNCHANGED <<log_file, results_file, test_cases, results, ret, calls, analysis,
                   logged>>

----------------------------------------------------------------------------
(* Spec: batch runs over a given test-case file, their analysis, and the   *)
(* analysis of an existing results artifact.                               *)

EmptyArtifact ==
    [results |-> <<>>,
     summary |-> [total_tests |-> 0, passed_tests |-> 0, failed_tests |-> 0]]

Init ==
    /\ log_file = File("")
    /\ eval_data \in {NoFile} \cup {File(text) : text \in TextsOf(TestLines, MaxLines)}
    /\ results_file \in {[exists |-> FALSE, doc |-> EmptyArtifact],
                         [exists |-> TRUE, doc |-> EmptyArtifact]}
    /\ pc = "idle"
    /\ test_cases = <<>>
    /\ results = <<>>
    /\ ret = NotRun
    /\ calls = <<>>
    /\ analysis = NotAnalyzed
    /\ logged = <<>>

Next ==
    \/ RunStart("eval_data.jsonl")
    \/ StartCase
    \/ FinishCase(BatchRuns)
    \/ RunReturn
    \/ AnalyzeRun
    \/ AnalyzeExisting

Spec == Init /\ [][Next]_vars

----------------------------------------------------------------------------
(* SpecScore: one well-formed case, evaluated on answers that make the     *)
(* checks of the scorers fire in many combinations.                        *)

InitScore ==
    /\ log_file = File("")
    /\ eval_data \in {File(LoggedCaseLine(destination, num_days))
                      : destination \in Destinations, num_days \in 1..MaxDays}
    /\ results_file = [exists |-> FALSE, doc |-> EmptyArtifact]
    /\ pc = "idle"
    /\ test_cases = <<>>
    /\ results = <<>>
    /\ ret = NotRun
    /\ calls = <<>>
    /\ analysis = NotAnalyzed
    /\ logged = <<>>

NextScore ==
    \/ RunStart("eval_data.jsonl")
    \/ StartCase
    \/ FinishCase(ScoreRuns)
    \/ RunReturn

SpecScore == InitScore /\ [][NextScore]_vars

----------------------------------------------------------------------------
(* SpecStore: the interaction store under construction of evaluators,      *)
(* logging, and conversion to test data.                                   *)

\* a record an earlier process logged
EarlierCall == LoggedCall(InputOf("Tokyo", 3), "Day 1: arrive.")

EarlierStore ==
    log_interaction(File(""), Now(0), EarlierCall.user_input, EarlierCall.planner_output,
                    PyNone, PlannerMetadata)

InitStore ==
    /\ \E store \in {[log |-> NoFile, logged |-> <<>>],
                      [log |-> File(""), logged |-> <<>>],
                      [log |-> EarlierStore, logged |-> <<EarlierCall>>]} :
          /\ log_file = store.log
          /\ logged = store.logged
    /\ eval_data = NoFile
    /\ results_file = [exists |-> FALSE, doc |-> EmptyArtifact]
    /\ pc = "start"
    /\ test_cases = <<>>
    /\ results = <<>>
    /\ ret = NotRun
    /\ calls = <<>>
    /\ analysis = NotAnalyzed

NextStore ==
    \/ Construct
    \/ LogInteraction(LoggedArgs)
    \/ GenerateItinerary(ButtonRuns)
    \/ ConvertLogs

SpecStore == InitStore /\ [][NextStore]_vars

----------------------------------------------------------------------------
(* SpecReplay: batch runs over the default source, the interaction store,  *)
(* one after another.                                                      *)

\* the interactions logged before the batch runs, by log_interaction calls
\* that give no researcher output and no metadata
ReplayCalls ==
    { LoggedCall(InputOf("Paris", 2), "Day 1: arrive.\nDay 2: museum."),
      LoggedCall(InputOf("Tokyo", 3), "Day 1: arrive.") }

RECURSIVE StoreOf(_, _)
\* the store after the first k of a sequence of logged interactions
StoreOf(logged_calls, k) ==
    IF k = 0 THEN File("")
    ELSE log_interaction(StoreOf(logged_calls, k - 1), Now(k), logged_calls[k].user_input,
                         logged_calls[k].planner_output, PyNone, PyNone)

InitReplay ==
    /\ \E n \in 0..MaxLogged : \E logged_calls \in [1..n -> ReplayCalls] :
          /\ log_file = StoreOf(logged_calls, n)
          /\ logged = logged_calls
    /\ eval_data = NoFile
    /\ results_file = [exists |-> FALSE, doc |-> EmptyArtifact]
    /\ pc = "idle"
    /\ test_cases = <<>>
    /\ results = <<>>
    /\ ret = NotRun
    /\ calls = <<>>
    /\ analysis = NotAnalyzed

NextReplay ==
    \/ RunStart("")
    \/ StartCase
    \/ FinishCase(BatchRuns)
    \/ RunReturn

SpecReplay == InitReplay /\ [][NextReplay]_vars

----------------------------------------------------------------------------
(* The properties.                                                           *)

\* the response the i-th case was evaluated on
ResponseOf(i) == calls[i].end.value

\* the i-th case was generated and scored
Scored(i) == i \in 1..Len(results) /\ ~calls[i].end.raised

DestinationOf(i) == Get(Get(test_cases[i], "input"), "destination").s
NumDaysOf(i) == Get(Get(test_cases[i], "input"), "num_days").n

\* C1: a case whose generation call succeeded has a score equal to the
\* arithmetic mean of its three sub-scores (relevance, contains, quality, in
\* this order), and passed equal to the AND of the three flags
\* relevance >= 0.7, contains >= 0.8 and quality >= 0.7.
C1_ScoreIsMeanPassedIsAnd ==
    \A i \in 1..Len(results) :
        Scored(i) =>
            \E e \in {results[i].details.evaluations} :
                /\ Len(e) = 3
                /\ e[1].type = "answer-relevance"
                /\ e[2].type = "contains"
                /\ e[3].type = "llm-rubric"
                /\ 3 * results[i].score = e[1].score + e[2].score + e[3].score
                /\ e[1].passed = (e[1].score >= Tenths(7))
                /\ e[2].passed = (e[2].score >= Tenths(8))
                /\ e[3].passed = (e[3].score >= Tenths(7))
                /\ results[i].passed = (e[1].passed /\ e[2].passed /\ e[3].passed)

\* a scored case whose relevance and quality pass and whose contains fails
C1_Witness ==
    \E i \in 1..Len(results) :
        /\ Scored(i)
        /\ results[i].details.evaluations[1].passed
        /\ ~results[i].details.evaluations[2].passed
        /\ results[i].details.evaluations[3].passed
        /\ ~results[i].passed

\* every test case that was loaded has the destination and num_days keys
WellFormed == \A i \in 1..Len(test_cases) : HasInputKeys(test_cases[i])

\* C2: for a batch of n well-formed test cases, whatever the cases whose
\* generation raised, run_evaluation returns n results; a case whose
\* generation raised has passed = false, score = 0.0, the error message and
\* no sub-score list, and every other case has the result its own test case
\* and response give.
C2_GenerationFailuresAreIsolated ==
    (ret.kind = "batch" /\ WellFormed) =>
        /\ Len(ret.value.results) = Len(test_cases)
        /\ \A i \in 1..Len(test_cases) :
              \E r \in {ret.value.results[i]} :
                 IF calls[i].end.raised
                 THEN /\ r.passed = FALSE
                      /\ r.score = 0
                      /\ "error" \in DOMAIN r.details
                      /\ r.details.error = calls[i].end.message
                      /\ "evaluations" \notin DOMAIN r.details
                 ELSE /\ "error" \notin DOMAIN r.details
                      /\ r = _evaluate_single_case(test_cases[i], i - 1,
                                                   Return(ResponseOf(i))).value

\* a returned batch of two cases: the first one's generation raised, the
\* second one's did not
C2_Witness ==
    /\ ret.kind = "batch"
    /\ WellFormed
    /\ Len(test_cases) = 2
    /\ calls[1].end.raised
    /\ ~calls[2].end.raised

\* C3: when a test case's input lacks destination or num_days, the case
\* yields a result with the error set and passed = false, and run_evaluation
\* returns a result for every case.
C3_MalformedCaseIsReported ==
    (pc = "done" /\ ~WellFormed) =>
        /\ ret.kind = "batch"
        /\ Len(ret.value.results) = Len(test_cases)
        /\ \A i \in 1..Len(test_cases) :
              ~HasInputKeys(test_cases[i]) =>
                  /\ ~ret.value.results[i].passed
                  /\ "error" \in DOMAIN ret.value.results[i].details

\* C4: in every batch run_evaluation returns, total_tests is the number of
\* results and is passed_tests + failed_tests, and passed_tests is the
\* number of results whose passed flag is true.
C4_BatchCounts ==
    ret.kind = "batch" =>
        \E b \in {ret.value} :
            /\ b.summary.total_tests = Len(b.results)
            /\ b.summary.total_tests = b.summary.passed_tests + b.summary.failed_tests
            /\ b.summary.passed_tests =
                   Cardinality({i \in 1..Len(b.results) : b.results[i].passed})

\* a returned batch with a passed and a failed case that carries no error
C4_Witness ==
    /\ ret.kind = "batch"
    /\ ret.value.summary.passed_tests = 1
    /\ ret.value.summary.failed_tests = 1
    /\ \A i \in 1..Len(calls) : ~calls[i].end.raised

\* the test-case file holds no usable case: it is empty or all blank lines
ZeroUsableCases ==
    /\ eval_data.exists
    /\ \E lines \in {Lines(eval_data.text)} : \A k \in 1..Len(lines) : IsBlank(lines[k])

\* C5: over a source with zero usable cases run_evaluation returns None and
\* makes no generation call; it never returns a batch with zero counts; and
\* whenever at least one case is loaded it returns a batch with
\* total_tests >= 1.
C5_EmptyInputSignal ==
    pc = "done" =>
        /\ ZeroUsableCases => (ret = ReturnedNone /\ calls = <<>>)
        /\ ret.kind = "batch" => ret.value.summary.total_tests >= 1
        /\ test_cases # <<>> =>
              (ret.kind = "batch" /\ ret.value.summary.total_tests >= 1)

\* the sum of the weights, in tenths, of the checks that fired
RECURSIVE FiredWeight(_, _, _)
FiredWeight(fired, weights, k) ==
    IF k > Len(fired) THEN 0
    ELSE (IF fired[k] THEN Tenths(weights[k]) ELSE 0) + FiredWeight(fired, weights, k + 1)

\* a score is in [0, 1], the capped sum of the weights of the checks that
\* fired, and 1.0 when all fired
CappedWeightSum(score, fired, weights) ==
    /\ score \in 0..Unit
    /\ score = Min(FiredWeight(fired, weights, 1), Unit)
    /\ (\A k \in 1..Len(fired) : fired[k]) => score = Unit

\* C6: each scorer returns a value in [0, 1] that is the sum of the weights
\* of its checks that fired (relevance 0.3, 0.3, 0.2, 0.2; contains 0.4, 0.3,
\* 0.3; quality five times 0.2), capped at 1.0, and exactly 1.0 when all of
\* its checks fire.
C6_ScorersAreCappedWeightSums ==
    \A i \in 1..Len(results) :
        Scored(i) =>
            \E e \in {results[i].details.evaluations} :
                /\ CappedWeightSum(e[1].score,
                       RelevanceChecks(DestinationOf(i), NumDaysOf(i), ResponseOf(i)),
                       <<3, 3, 2, 2>>)
                /\ CappedWeightSum(e[2].score,
                       ContainsChecks(DestinationOf(i), ResponseOf(i)),
                       <<4, 3, 3>>)
                /\ CappedWeightSum(e[3].score,
                       QualityChecks(ResponseOf(i), NumDaysOf(i)),
                       <<2, 2, 2, 2, 2>>)

\* a scored case where every check of every scorer fired
C6_Witness ==
    \E i \in 1..Len(results) :
        /\ Scored(i)
        /\ \A k \in 1..3 : results[i].details.evaluations[k].score = Unit
        /\ \A k \in 1..3 : ContainsChecks(DestinationOf(i), ResponseOf(i))[k]

\* C7: after the log_interaction calls made on a store, the conversion
\* succeeds and writes one test case per call, in the order of the calls;
\* the k-th has the k-th call's destination and num_days as its input and
\* the k-th call's planner_output as expected.
C7_ConversionRoundTrip ==
    /\ pc # "failed"
    /\ pc = "converted" =>
          /\ eval_data.exists
          /\ \E loaded \in {LoadFile(eval_data)} :
                /\ ~loaded.raised
                /\ Len(loaded.value) = Len(logged)
                /\ \A k \in 1..Len(logged) :
                      /\ Get(Get(loaded.value[k], "input"), "destination")
                             = Get(logged[k].user_input, "destination")
                      /\ Get(Get(loaded.value[k], "input"), "num_days")
                             = Get(logged[k].user_input, "num_days")
                      /\ Get(loaded.value[k], "expected") = PyStr(logged[k].planner_output)

\* a converted store of two different records, the first with quotes,
\* backslashes and a line break in its output
C7_Witness ==
    /\ pc = "converted"
    /\ Len(logged) = 2
    /\ logged[1] # logged[2]
    /\ Contains("\\", logged[1].planner_output)
    /\ Contains("\n", logged[1].planner_output)

\* the message of the failed-cases insight
FailedInsight(n) == "Found " \o str(n) \o " failed test cases that need attention"

\* C8: for every results collection analyze_results is given, the failed
\* insight is emitted exactly when failed_count > 0, and the all-passed
\* insight exactly when passed_count = total and total > 0.
C8_InsightsMatchCounts ==
    analysis.done =>
        \E rs \in {analysis.of.results}, insights \in {analysis.value.insights} :
            /\ (\E k \in 1..Len(insights) : insights[k] = FailedInsight(FailedCount(rs)))
                   <=> FailedCount(rs) > 0
            /\ (\E k \in 1..Len(insights) :
                    insights[k] = "All tests passed - agent is performing well")
                   <=> (PassedCount(rs) = Len(rs) /\ Len(rs) > 0)

\* the scenario: the response of the i-th case is the scenario's, for Paris
\* and 2 days
Scenario(i) ==
    /\ Scored(i)
    /\ ResponseOf(i) = ScenarioResponse
    /\ DestinationOf(i) = "Paris"
    /\ NumDaysOf(i) = 2

\* C9, as the code has it: on the scenario the destination check fires in
\* neither scorer ("Paris" is not in the response); relevance is 0.7 (the
\* day-count check 0.3, the structure check 0.2, the keyword check 0.2) and
\* passes; contains is 0.3 ("day 1" only) and fails its 0.8 threshold; the
\* case has passed = false.
C9_ScenarioAsScored ==
    \A i \in 1..Len(results) :
        Scenario(i) =>
            \E e \in {results[i].details.evaluations} :
                /\ ~RelevanceChecks("Paris", 2, ScenarioResponse)[1]
                /\ ~ContainsChecks("Paris", ScenarioResponse)[1]
                /\ e[1].score = Tenths(7)
                /\ e[1].passed
                /\ e[2].score = Tenths(3)
                /\ ~e[2].passed
                /\ ~results[i].passed

\* the scenario was scored
C9_Witness == \E i \in 1..Len(results) : Scenario(i)

\* C9, as stated: on the scenario the destination check fires in both
\* scorers, relevance is at least 0.7 and passes, contains is 0.7 and fails
\* its 0.8 threshold, and the case has passed = false.
C9_ScenarioAsStated ==
    \A i \in 1..Len(results) :
        Scenario(i) =>
            \E e \in {results[i].details.evaluations} :
                /\ RelevanceChecks("Paris", 2, ScenarioResponse)[1]
                /\ ContainsChecks("Paris", ScenarioResponse)[1]
                /\ e[1].score >= Tenths(7)
                /\ e[1].passed
                /\ e[2].score = Tenths(7)
                /\ ~e[2].passed
                /\ ~results[i].passed

\* what a step added at the end of the store
Added == From(log_file'.text, Len(log_file.text) + 1)

\* C10: the store is append-only.  A step that makes a log_interaction call
\* keeps the text of the store as it was and adds one line after it, the
\* record of the call; any other step leaves the store as it is, or, when
\* there is none, creates it empty.
C10_StoreIsAppendOnly ==
    [][ IF Len(logged') = Len(logged)
        THEN \/ log_file' = log_file
             \/ ~log_file.exists /\ log_file' = File("")
        ELSE /\ Len(logged') = Len(logged) + 1
             /\ log_file'.exists
             /\ Len(log_file'.text) > Len(log_file.text)
             /\ SubSeq(log_file'.text, 1, Len(log_file.text)) = log_file.text
             /\ Len(Lines(Added)) = 1
             /\ Ch(Added, Len(Added)) = "\n"
             /\ \E entry \in {loads(Added)} :
                   /\ entry.ok
                   /\ Get(entry.v, "user_input") = logged'[Len(logged')].user_input
                   /\ Get(entry.v, "planner_output")
                          = PyStr(logged'[Len(logged')].planner_output)
      ]_vars

\* an evaluator was constructed over a store that holds the records of two
\* calls
C10_Witness ==
    /\ pc = "idle"
    /\ Len(logged) = 2
    /\ Len(Lines(log_file.text)) = 2

\* the indices of the results that did not pass, in result order
RECURSIVE NonPassed(_, _)
NonPassed(rs, k) ==
    IF k > Len(rs) THEN <<>>
    ELSE (IF rs[k].passed THEN <<>> ELSE <<k>>) \o NonPassed(rs, k + 1)

\* the analysis at hand is the analysis of the batch run_evaluation returned
AnalyzedBatch == analysis.done /\ ret.kind = "batch" /\ analysis.of = ret.value

\* C11: the analysis of a batch run_evaluation returned has the batch's own
\* total_tests, passed_tests and failed_tests, and its failed_cases holds one
\* entry per non-passed result, in result order (the result's description,
\* score and details), so that its length is failed_tests.
C11_AnalysisMirrorsBatch ==
    AnalyzedBatch =>
        \E b \in {ret.value}, a \in {analysis.value} :
        \E failed \in {NonPassed(b.results, 1)} :
            /\ a.summary.total_tests = b.summary.total_tests
            /\ a.summary.passed_tests = b.summary.passed_tests
            /\ a.summary.failed_tests = b.summary.failed_tests
            /\ Len(a.failed_cases) = b.summary.failed_tests
            /\ Len(a.failed_cases) = Len(failed)
            /\ \A k \in 1..Len(failed) :
                  /\ a.failed_cases[k].test = b.results[failed[k]].test.description
                  /\ a.failed_cases[k].score = b.results[failed[k]].score
                  /\ a.failed_cases[k].details = b.results[failed[k]].details

\* the analysis of a batch of two failed cases, the first with an error and
\* the second with sub-scores
C11_Witness ==
    /\ AnalyzedBatch
    /\ Len(ret.value.results) = 2
    /\ ret.value.summary.failed_tests = 2
    /\ "error" \in DOMAIN ret.value.results[1].details
    /\ "evaluations" \in DOMAIN ret.value.results[2].details

\* the description of the result of the i-th case starts with "Test Case i"
HasCasePrefix(description, i) ==
    \E prefix \in {"Test Case " \o str(i)} :
        /\ Len(description) >= Len(prefix)
        /\ SubSeq(description, 1, Len(prefix)) = prefix

\* C12: run_evaluation takes the cases in input order, one at a time.  At
\* every moment the generation calls made are those of the first cases, in
\* order; every call but the last has ended and its case's result is
\* appended; the only call that may still run is the one of the case right
\* after the last appended result.  The i-th result is the result of the
\* i-th loaded test case and of the i-th call (it names that case's
\* destination and days and carries that call's response or error),
\* described as "Test Case i", and a returned batch holds these results in
\* this order.
C12_CasesInOrderOneAtATime ==
    /\ Len(results) <= Len(test_cases)
    /\ Len(calls) \in {Len(results), Len(results) + 1}
    /\ \A i \in 1..Len(calls) :
          /\ (calls[i].end = Pending) <=> (i = Len(results) + 1)
          /\ calls[i].args = _generate_response(DestinationOf(i), NumDaysOf(i))
    /\ \A i \in 1..Len(results) :
          /\ HasCasePrefix(results[i].test.description, i)
          /\ IF calls[i].end.raised
             THEN results[i].details.error = calls[i].end.message
             ELSE /\ results[i].test.description =
                         "Test Case " \o str(i) \o ": " \o DestinationOf(i)
                             \o " for " \o str(NumDaysOf(i)) \o " days"
                  /\ results[i].details.response = Excerpt(ResponseOf(i))
    /\ ret.kind = "batch" =>
          /\ ret.value.results = results
          /\ Len(results) = Len(test_cases)

\* a returned batch of two different cases with different results
C12_Witness ==
    /\ ret.kind = "batch"
    /\ Len(ret.value.results) = 2
    /\ test_cases[1] # test_cases[2]
    /\ ret.value.results[1] # ret.value.results[2]
    /\ ~calls[1].end.raised
    /\ ~calls[2].end.raised

\* the number of checks of the contains scorer that fired on the i-th case
ContainsFired(i) ==
    Cardinality({k \in 1..3 : ContainsChecks(DestinationOf(i), ResponseOf(i))[k]})

\* C13: the contains sub-score passes its 0.8 threshold only when all three
\* of its checks fire; with any check missing it is at most 0.7 and the case
\* has passed = false, whatever its relevance and quality scores.
C13_ContainsNeedsAllThree ==
    \A i \in 1..Len(results) :
        Scored(i) =>
            \E e \in {results[i].details.evaluations}, fired \in {ContainsFired(i)} :
                /\ e[2].passed <=> fired = 3
                /\ fired < 3 => (e[2].score <= Tenths(7) /\ ~results[i].passed)

\* a scored case whose relevance and quality pass, quality with 1.0, and whose
\* response misses exactly one of the three elements
C13_Witness ==
    \E i \in 1..Len(results) :
        /\ Scored(i)
        /\ ContainsFired(i) = 2
        /\ results[i].details.evaluations[1].passed
        /\ results[i].details.evaluations[3].score = Unit
        /\ ~results[i].passed

\* C14: a batch run never changes the interaction store.  Every step of
\* run_evaluation, whatever the number of cases and the generation failures,
\* leaves the store and the sequence of its records as they were, and a
\* default-source run that starts after another one has ended loads the
\* same test cases, in the same order, into the same test data file.
C14_BatchRunsLeaveStore ==
    [][ /\ log_file' = log_file
        /\ logged' = logged
        /\ pc = "done" => (test_cases' = test_cases /\ eval_data' = eval_data)
      ]_vars

\* a default-source run over a store of two records has returned a batch of
\* two results, the first one's generation having raised
C14_Witness ==
    /\ pc = "done"
    /\ ret.kind = "batch"
    /\ Len(logged) = 2
    /\ Len(Lines(log_file.text)) = 2
    /\ Len(ret.value.results) = 2
    /\ calls[1].end.raised
    /\ ~calls[2].end.raised

====
